---- MODULE Spec2Model ----
(***************************************************************************)
(* Model of listen_udp (udp_listener.py): a UDP diagnostic listener.       *)
(* One step of the model is one statement of the function, so that a       *)
(* KeyboardInterrupt (raised by the interpreter between any two            *)
(* statements of the main thread) can be delivered at every point where    *)
(* Python can deliver it.                                                  *)
(***************************************************************************)
EXTENDS Integers, Sequences, FiniteSets

\* ---------------------------------------------------------------- bounds
MaxMsgs == 2          \* datagrams the environment sends
MaxTimeouts == 2      \* receive timeouts the environment lets elapse
MaxInterrupts == 2    \* SIGINTs the environment delivers
MaxListLen == 1       \* length of a JSON list / string standing for "data"

\* ------------------------------------------------------ program constants
RawLimit == 100
sample_keys == {"jawOpen", "mouthSmileLeft", "tongueOut"}

\* Keys that may occur in a "data" mapping: the sampled ones and another one.
Keys == sample_keys \cup {"eyeBlinkLeft"}
\* The values of a "data" mapping.  listen_udp only copies them, so two
\* distinct ones are enough to tell a copied value from a wrong one.
Vals == {0, 1}
Lens == {RawLimit, RawLimit + 1}

\* ------------------------------------------------------------ JSON values
EmptyDict == [k \in {} |-> 0]
Dicts == UNION {[S -> Vals] : S \in SUBSET Keys}

JObj(m) == [t |-> "obj", m |-> m, n |-> 0]
JList(n) == [t |-> "list", m |-> EmptyDict, n |-> n]
JStr(n) == [t |-> "str", m |-> EmptyDict, n |-> n]
JNum == [t |-> "num", m |-> EmptyDict, n |-> 0]
JNull == [t |-> "null", m |-> EmptyDict, n |-> 0]

\* The values the "data" field of a document can have.
DataVals ==
    {JObj(m) : m \in Dicts} \cup {JList(n) : n \in 0..MaxListLen}
        \cup {JStr(n) : n \in 0..MaxListLen} \cup {JNum, JNull}

\* A parsed document: the type of its top-level value and, for an object,
\* whether it has a "data" field and that field's value (other fields are
\* never read).
NoDoc == [top |-> "none", hasData |-> FALSE, d |-> JNull]
Docs ==
    {[top |-> "obj", hasData |-> TRUE, d |-> v] : v \in DataVals}
        \cup {[top |-> t, hasData |-> FALSE, d |-> JNull] :
                 t \in {"obj", "list", "str", "num", "null"}}

\* A datagram payload: bytes that are not UTF-8, UTF-8 text that is not
\* JSON, or the UTF-8 encoding of a JSON document.
NoData == [kind |-> "none", len |-> 0, doc |-> NoDoc]
Payloads ==
    {[kind |-> "json", len |-> l, doc |-> j] : l \in Lens, j \in Docs}
        \cup {[kind |-> k, len |-> l, doc |-> NoDoc] :
                 k \in {"badutf8", "badjson"}, l \in Lens}

\* data.decode('utf-8') followed by json.loads: the exception raised, if any.
DecodeError(p) ==
    IF p.kind = "badutf8" THEN "UnicodeDecodeError"
    ELSE IF p.kind = "badjson" THEN "JSONDecodeError"
    ELSE "none"

\* The value json.loads returns for a payload that decodes.
Loads(p) == p.doc

\* except (UnicodeDecodeError, json.JSONDecodeError)
CaughtByDecodeHandler_M(e) == e = "JSONDecodeError"
CaughtByDecodeHandler(e) == e \in {"UnicodeDecodeError", "JSONDecodeError"}

\* json_data.get('data', {}): only a dict has .get
HasGet(j) == j.top = "obj"
Get(j) == IF j.hasData THEN j.d ELSE JObj(EmptyDict)

\* .items(): only a dict has it
HasItems(v) == v.t = "obj"

\* The items of a dict, as a sequence of <<key, value>> pairs.
RECURSIVE Items(_)
Items(m) ==
    IF DOMAIN m = {} THEN <<>>
    ELSE LET k == CHOOSE x \in DOMAIN m : TRUE
             rest == [x \in DOMAIN m \ {k} |-> m[x]]
         IN << <<k, m[k]>> >> \o Items(rest)

\* {k: v for k, v in items if k in sample_keys}
RECURSIVE Comprehension_M(_)
Comprehension_M(items) ==
    IF items = <<>> THEN EmptyDict
    ELSE LET k == Head(items)[1]
             v == Head(items)[2]
             rest == Comprehension_M(Tail(items))
         IN [x \in DOMAIN rest \cup {k} |-> IF x = k THEN v ELSE rest[x]]
RECURSIVE Comprehension(_)
Comprehension(items) ==
    IF items = <<>> THEN EmptyDict
    ELSE LET k == Head(items)[1]
             v == Head(items)[2]
             rest == Comprehension(Tail(items))
         IN IF k \in sample_keys
            THEN [x \in DOMAIN rest \cup {k} |-> IF x = k THEN v ELSE rest[x]]
            ELSE rest

\* len(): of a dict, a list or a string
HasLen(v) == v.t \in {"obj", "list", "str"}
PyLen(v) == IF v.t = "obj" THEN Cardinality(DOMAIN v.m) ELSE v.n

\* message_count += 1
IncrCount_M(c) == c + 2
IncrCount(c) == c + 1

\* ------------------------------------------------------------------ state
VARIABLES
    pc,             \* the statement listen_udp is about to execute
    sock,           \* "none" (not created), "open", "closed"
    message_count,
    data,           \* the payload returned by the last recvfrom
    json_data,
    sample_data,
    exc,            \* the exception propagating out of listen_udp, or "none"
    out,            \* the last line printed, in full
    log,            \* every line printed: its kind and the counters then
    received,       \* datagrams recvfrom has returned
    timeouts,       \* timeouts recvfrom has raised
    interrupts,     \* KeyboardInterrupts delivered
    closes,         \* calls of sock.close()
    intAt           \* the statement the first KeyboardInterrupt hit

vars == <<pc, sock, message_count, data, json_data, sample_data, exc, out,
          log, received, timeouts, interrupts, closes, intAt>>

SetupPcs == {"create", "setup", "bind", "init"}
PacketPcs == {"incr", "summary", "size", "decode", "sample", "print_sample",
              "print_total", "err", "raw"}
LoopPcs == {"recv", "idle"} \cup PacketPcs

Line(ev, n, m, trunc) == [ev |-> ev, n |-> n, m |-> m, trunc |-> trunc]
NoLine == Line("none", 0, EmptyDict, FALSE)
Entry(ev) == [ev |-> ev, n |-> message_count, r |-> received]

\* print(...): the line goes to standard output
Emit(line) ==
    /\ out' = line
    /\ log' = Append(log, Entry(line.ev))

Init ==
    /\ pc = "create"
    /\ sock = "none"
    /\ message_count = 0
    /\ data = NoData
    /\ json_data = NoDoc
    /\ sample_data = EmptyDict
    /\ exc = "none"
    /\ out = NoLine
    /\ log = <<>>
    /\ received = 0
    /\ timeouts = 0
    /\ interrupts = 0
    /\ closes = 0
    /\ intAt = "none"

\* An exception other than KeyboardInterrupt raised in the try block: no
\* handler matches, the finally clause runs and the exception propagates.
Unhandled(e) ==
    /\ pc' = "finally"
    /\ exc' = e

\* ---------------------------------------------------------------- set-up
\* sock = socket.socket(AF_INET, SOCK_DGRAM)
CreateSocket ==
    /\ pc = "create"
    /\ \/ /\ sock' = "open"
          /\ pc' = "setup"
          /\ exc' = exc
       \/ /\ sock' = sock
          /\ pc' = "done"
          /\ exc' = "OSError"
    /\ UNCHANGED <<message_count, data, json_data, sample_data, out, log,
                   received, timeouts, interrupts, closes, intAt>>

\* sock.settimeout(5.0) and the two banner lines
Setup ==
    /\ pc = "setup"
    /\ pc' = "bind"
    /\ Emit(Line("banner", 0, EmptyDict, FALSE))
    /\ UNCHANGED <<sock, message_count, data, json_data, sample_data, exc,
                   received, timeouts, interrupts, closes, intAt>>

\* sock.bind(server_address): outside the try block, so a failure
\* propagates without the finally clause.
Bind ==
    /\ pc = "bind"
    /\ \/ /\ pc' = "init"
          /\ exc' = exc
       \/ /\ pc' = "done"
          /\ exc' = "OSError"
    /\ UNCHANGED <<sock, message_count, data, json_data, sample_data, out,
                   log, received, timeouts, interrupts, closes, intAt>>

\* message_count = 0
InitCount ==
    /\ pc = "init"
    /\ message_count' = 0
    /\ pc' = "recv"
    /\ UNCHANGED <<sock, data, json_data, sample_data, exc, out, log,
                   received, timeouts, interrupts, closes, intAt>>

\* ------------------------------------------------------------------ loop
\* data, address = sock.recvfrom(4096) returns a datagram.  The values the
\* previous iteration bound to json_data and sample_data are never read
\* again (both are assigned before they are used), so they are dropped.
RecvDatagram ==
    /\ pc = "recv"
    /\ received < MaxMsgs
    /\ \E p \in Payloads : data' = p
    /\ received' = received + 1
    /\ json_data' = NoDoc
    /\ sample_data' = EmptyDict
    /\ pc' = "incr"
    /\ UNCHANGED <<sock, message_count, exc, out, log, timeouts, interrupts,
                   closes, intAt>>

\* recvfrom raises socket.timeout.  As in RecvDatagram, the values of the
\* previous iteration are never read again and are dropped.
RecvTimeout ==
    /\ pc = "recv"
    /\ timeouts < MaxTimeouts
    /\ timeouts' = timeouts + 1
    /\ data' = NoData
    /\ json_data' = NoDoc
    /\ sample_data' = EmptyDict
    /\ pc' = "idle"
    /\ UNCHANGED <<sock, message_count, exc, out, log, received, interrupts,
                   closes, intAt>>

\* recvfrom raises another OSError, which no handler catches
RecvError ==
    /\ pc = "recv"
    /\ Unhandled("OSError")
    /\ UNCHANGED <<sock, message_count, data, json_data, sample_data, out,
                   log, received, timeouts, interrupts, closes, intAt>>

\* message_count += 1
Increment ==
    /\ pc = "incr"
    /\ message_count' = IncrCount(message_count)
    /\ pc' = "summary"
    /\ UNCHANGED <<sock, data, json_data, sample_data, exc, out, log,
                   received, timeouts, interrupts, closes, intAt>>

\* print(f'\n[{timestamp}] Message #{message_count} from {address}')
EmitSummary ==
    /\ pc = "summary"
    /\ Emit(Line("summary", message_count, EmptyDict, FALSE))
    /\ pc' = "size"
    /\ UNCHANGED <<sock, message_count, data, json_data, sample_data, exc,
                   received, timeouts, interrupts, closes, intAt>>

\* print(f'Size: {len(data)} bytes')
EmitSize ==
    /\ pc = "size"
    /\ Emit(Line("size", data.len, EmptyDict, FALSE))
    /\ pc' = "decode"
    /\ UNCHANGED <<sock, message_count, data, json_data, sample_data, exc,
                   received, timeouts, interrupts, closes, intAt>>

\* decoded_data = data.decode('utf-8'); json_data = json.loads(decoded_data)
Decode ==
    /\ pc = "decode"
    /\ LET e == DecodeError(data) IN
         IF e = "none"
         THEN /\ json_data' = Loads(data)
              /\ pc' = "sample"
              /\ exc' = exc
         ELSE IF CaughtByDecodeHandler(e)
         THEN /\ json_data' = json_data
              /\ pc' = "err"
              /\ exc' = exc
         ELSE /\ json_data' = json_data
              /\ Unhandled(e)
    /\ UNCHANGED <<sock, message_count, data, sample_data, out, log,
                   received, timeouts, interrupts, closes, intAt>>

\* sample_data = {k: v for k, v in json_data.get('data', {}).items()
\*                if k in sample_keys}
Sample ==
    /\ pc = "sample"
    /\ IF HasGet(json_data) /\ HasItems(Get(json_data))
       THEN /\ sample_data' = Comprehension(Items(Get(json_data).m))
            /\ pc' = "print_sample"
            /\ exc' = exc
       ELSE /\ sample_data' = sample_data
            /\ Unhandled("AttributeError")
    /\ UNCHANGED <<sock, message_count, data, json_data, out, log, received,
                   timeouts, interrupts, closes, intAt>>

\* print(f'Sample data: {sample_data}')
EmitSample ==
    /\ pc = "print_sample"
    /\ Emit(Line("sample", 0, sample_data, FALSE))
    /\ pc' = "print_total"
    /\ UNCHANGED <<sock, message_count, data, json_data, sample_data, exc,
                   received, timeouts, interrupts, closes, intAt>>

\* len(json_data.get("data", {}))
TotalBlendshapes(j) == PyLen(Get(j))

\* print(f'Total blendshapes: {len(json_data.get("data", {}))}')
EmitTotal ==
    /\ pc = "print_total"
    /\ IF HasGet(json_data) /\ HasLen(Get(json_data))
       THEN /\ Emit(Line("total", TotalBlendshapes(json_data), EmptyDict,
                          FALSE))
            /\ pc' = "recv"
            /\ exc' = exc
       ELSE /\ UNCHANGED <<out, log>>
            /\ Unhandled(IF HasGet(json_data) THEN "TypeError"
                         ELSE "AttributeError")
    /\ UNCHANGED <<sock, message_count, data, json_data, sample_data,
                   received, timeouts, interrupts, closes, intAt>>

\* print(f'Error parsing data: {e}')
EmitError ==
    /\ pc = "err"
    /\ Emit(Line("error", 0, EmptyDict, FALSE))
    /\ pc' = "raw"
    /\ UNCHANGED <<sock, message_count, data, json_data, sample_data, exc,
                   received, timeouts, interrupts, closes, intAt>>

\* print(f'Raw data: {data[:100]}...' if len(data) > 100 else data)
EmitRaw ==
    /\ pc = "raw"
    /\ IF data.len > RawLimit
       THEN Emit(Line("raw", RawLimit, EmptyDict, TRUE))
       ELSE Emit(Line("raw", data.len, EmptyDict, FALSE))
    /\ pc' = "recv"
    /\ UNCHANGED <<sock, message_count, data, json_data, sample_data, exc,
                   received, timeouts, interrupts, closes, intAt>>

\* The lines the socket.timeout handler prints.
IdleLines_M == <<"idle", "idle">>
IdleLines == <<"idle">>

\* Where control goes after the socket.timeout handler: the while loop.
AfterIdleNotice_M == "finally"
AfterIdleNotice == "recv"

\* except socket.timeout: print('... No data received for 5 seconds...')
IdleNotice ==
    /\ pc = "idle"
    /\ out' = Line("idle", 0, EmptyDict, FALSE)
    /\ log' = log \o [i \in 1..Len(IdleLines) |-> Entry(IdleLines[i])]
    /\ pc' = AfterIdleNotice
    /\ UNCHANGED <<sock, message_count, data, json_data, sample_data, exc,
                   received, timeouts, interrupts, closes, intAt>>

\* -------------------------------------------------------------- shutdown
\* Where control goes after the KeyboardInterrupt handler.
AfterShutdownNotice_M == "recv"
AfterShutdownNotice == "finally"

\* except KeyboardInterrupt: print('\nShutting down UDP listener...')
ShutdownNotice ==
    /\ pc = "except_kbd"
    /\ Emit(Line("shutdown", 0, EmptyDict, FALSE))
    /\ pc' = AfterShutdownNotice
    /\ UNCHANGED <<sock, message_count, data, json_data, sample_data, exc,
                   received, timeouts, interrupts, closes, intAt>>

\* Where control goes after the finally clause.
AfterFinally == "done"

\* The state sock.close() leaves the socket in.
AfterClose_M == sock
AfterClose == "closed"

\* finally: sock.close()
Finally ==
    /\ pc = "finally"
    /\ sock' = AfterClose
    /\ closes' = closes + 1
    /\ pc' = AfterFinally
    /\ UNCHANGED <<message_count, data, json_data, sample_data, exc, out,
                   log, received, timeouts, interrupts, intAt>>

\* SIGINT: the interpreter raises KeyboardInterrupt before the statement the
\* main thread is about to execute.  In the try block the except clause
\* catches it; in its handler the finally clause still runs and the
\* exception propagates; anywhere else it propagates at once.
Interrupt ==
    /\ pc # "done"
    /\ interrupts < MaxInterrupts
    /\ interrupts' = interrupts + 1
    /\ intAt' = IF interrupts = 0 THEN pc ELSE intAt
    /\ IF pc \in LoopPcs
       THEN /\ pc' = "except_kbd"
            /\ exc' = exc
       ELSE IF pc = "except_kbd"
       THEN Unhandled("KeyboardInterrupt")
       ELSE /\ pc' = "done"
            /\ exc' = "KeyboardInterrupt"
    /\ UNCHANGED <<sock, message_count, data, json_data, sample_data, out,
                   log, received, timeouts, closes>>

Next ==
    \/ CreateSocket
    \/ Setup
    \/ Bind
    \/ InitCount
    \/ RecvDatagram
    \/ RecvTimeout
    \/ RecvError
    \/ Increment
    \/ EmitSummary
    \/ EmitSize
    \/ Decode
    \/ Sample
    \/ EmitSample
    \/ EmitTotal
    \/ EmitError
    \/ EmitRaw
    \/ IdleNotice
    \/ ShutdownNotice
    \/ Finally
    \/ Interrupt

Spec == Init /\ [][Next]_vars

\* ================================================================ claims
Sel(ev) == SelectSeq(log, LAMBDA e : e.ev = ev)
Count(ev) == Len(Sel(ev))
NoInterrupt == interrupts' = interrupts

\* ---------------------------------------------------------------------
\* C1: the k-th received datagram is printed with counter k: the counter
\* starts at 0, grows by exactly 1 per received datagram before its summary
\* line, never shrinks, and a timeout leaves it alone, so the printed
\* counters are 1, 2, ..., N in receipt order.
C1_Inv ==
    LET s == Sel("summary") IN
    /\ \A i \in 1..Len(s) : s[i].n = i /\ s[i].r = i
    /\ Len(s) <= message_count /\ message_count <= Len(s) + 1
    /\ message_count <= received /\ received <= message_count + 1
    /\ pc \in SetupPcs => message_count = 0
C1_Step ==
    /\ message_count' # message_count =>
          pc = "incr" /\ message_count' = message_count + 1
    /\ received' # received => pc' = "incr"
    /\ (pc = "incr" /\ NoInterrupt) => message_count' = message_count + 1
    /\ timeouts' # timeouts => message_count' = message_count
C1_CounterGapless == [](C1_Inv) /\ [][C1_Step]_vars
C1_Witness ==
    /\ Count("summary") >= 2
    /\ Count("idle") >= 1
    /\ Count("error") >= 1

\* ---------------------------------------------------------------------
\* C2: on every exit of listen_udp after the socket was created, the socket
\* has been closed.
C2_SocketClosedOnExit == (pc = "done" /\ sock # "none") => sock = "closed"

\* ---------------------------------------------------------------------
\* C3: no single datagram payload makes the listener leave the receive loop
\* or lose its open socket.
C3_NoExitOnPacket ==
    (received > 0 /\ interrupts = 0 /\ exc # "OSError") =>
        (pc \in LoopPcs /\ sock = "open" /\ exc = "none")

\* ---------------------------------------------------------------------
\* C4: a JSON object whose "data" field is absent or not a mapping is
\* treated as having an empty "data" mapping: empty sample, total 0, and no
\* error.
C4_NonMappingIsEmpty ==
    (json_data.top = "obj" /\ (~json_data.hasData \/ json_data.d.t # "obj"))
        => /\ exc \notin {"AttributeError", "TypeError"}
           /\ out.ev = "sample" => out.m = EmptyDict
           /\ out.ev = "total" => out.n = 0

\* ---------------------------------------------------------------------
\* C5: a payload that is not UTF-8 or not JSON takes the decode-error path
\* (an error diagnostic instead of the sampled data), the loop goes on with
\* the socket open, and the next datagram gets the next counter.
C5_Inv ==
    \A i \in 1..Len(log) : log[i].ev = "error" =>
        /\ i > 1 /\ log[i-1].ev = "size" /\ log[i-1].n = log[i].n
        /\ \A j \in 1..Len(log) :
              log[j].ev \in {"sample", "total"} => log[j].n # log[i].n
        /\ \A j \in (i+1)..Len(log) :
              (/\ log[j].ev = "summary"
               /\ \A h \in (i+1)..(j-1) : log[h].ev # "summary")
                  => log[j].n = log[i].n + 1
C5_Step ==
    NoInterrupt =>
        /\ (pc = "decode" /\ data.kind \in {"badutf8", "badjson"}) =>
              /\ pc' = "err"
              /\ UNCHANGED <<sock, exc, log, message_count>>
        /\ pc = "err" =>
              /\ pc' = "raw"
              /\ log' = Append(log, Entry("error"))
              /\ UNCHANGED <<sock, exc, message_count>>
        /\ pc = "raw" =>
              /\ pc' = "recv"
              /\ log' = Append(log, Entry("raw"))
              /\ UNCHANGED <<sock, exc, message_count>>
        /\ pc \in {"decode", "err", "raw"} => sock = "open" /\ exc = "none"
C6_GracefulShutdown ==
    (intAt \in {"recv", "idle"} /\ interrupts = 1) =>
        /\ pc \in {"except_kbd", "finally", "done"}
        /\ exc = "none"
        /\ pc = "except_kbd" => Count("shutdown") = 0 /\ closes = 0
        /\ pc # "except_kbd" =>
              Count("shutdown") = 1 /\ log[Len(log)].ev = "shutdown"
        /\ pc = "finally" => closes = 0 /\ sock = "open"
        /\ pc = "done" => closes = 1 /\ sock = "closed"
C6_Witness ==
    /\ intAt = "idle"
    /\ interrupts = 1
    /\ pc = "done"
    /\ message_count >= 1

\* ---------------------------------------------------------------------
\* C7: each receive timeout gives exactly one idle notice, is no error,
\* leaves the counter and the open socket alone and returns to the receive,
\* any number of times in a row, until a datagram or an interrupt arrives.
C7_Inv ==
    /\ Count("idle") =
          timeouts - (IF pc = "idle" \/ intAt = "idle" THEN 1 ELSE 0)
    /\ pc = "idle" => sock = "open" /\ exc = "none"
C7_Step ==
    /\ timeouts' # timeouts =>
          /\ pc = "recv" /\ pc' = "idle" /\ timeouts' = timeouts + 1
          /\ UNCHANGED <<sock, exc, log, message_count>>
    /\ (pc = "idle" /\ NoInterrupt) =>
          /\ pc' = "recv"
          /\ log' = Append(log, Entry("idle"))
          /\ UNCHANGED <<sock, exc, message_count>>
C7_OneIdleNoticePerTimeout == [](C7_Inv) /\ [][C7_Step]_vars
C7_Witness ==
    /\ timeouts >= 2
    /\ Len(log) >= 3
    /\ log[Len(log)].ev = "summary"
    /\ log[Len(log) - 1].ev = "idle"
    /\ log[Len(log) - 2].ev = "idle"

\* ---------------------------------------------------------------------
\* C8: for a JSON object with a "data" mapping D the sample printed is D
\* restricted to the allow-list {jawOpen, mouthSmileLeft, tongueOut}, and
\* the total printed is the number of entries of D.
C8_HasMapping ==
    json_data.top = "obj" /\ json_data.hasData /\ json_data.d.t = "obj"
C8_SampleIsRestriction ==
    C8_HasMapping =>
        LET D == json_data.d.m IN
        /\ out.ev = "sample" =>
              /\ DOMAIN out.m =
                    DOMAIN D \cap {"jawOpen", "mouthSmileLeft", "tongueOut"}
              /\ \A k \in DOMAIN out.m : out.m[k] = D[k]
        /\ out.ev = "total" => out.n = Cardinality(DOMAIN D)
        /\ exc \notin {"AttributeError", "TypeError"}
C8_Witness ==
    /\ C8_HasMapping
    /\ out.ev = "total"
    /\ out.n = 3
    /\ DOMAIN sample_data = {"jawOpen", "tongueOut"}
    /\ sample_data["jawOpen"] # sample_data["tongueOut"]

\* ---------------------------------------------------------------------
\* C9 as stated: an interrupt takes effect only at the blocking receive or
\* in the timeout handler, so when the shutdown notice is printed every
\* datagram that was counted has its summary and its decode result printed.
C9_Uninterruptible ==
    /\ [][(pc \in LoopPcs /\ pc' = "except_kbd") =>
             pc \in {"recv", "idle"}]_vars
    /\ [](Count("shutdown") > 0 =>
             /\ Count("summary") = message_count
             /\ Count("total") + Count("raw") = message_count)

\* C9 as amended: an interrupt can take effect before any statement of the
\* loop.  It cuts short the output of the datagram in progress and nothing
\* else: the lines of a datagram come in order (summary, size, then sample
\* and total, or error and raw), only a shutdown notice or the end of the
\* output interrupts them, and nothing follows a shutdown notice.
C9_Follows(a, b) ==
    CASE a.ev = "summary" -> b.ev \in {"size", "shutdown"} /\ b.n = a.n
      [] a.ev = "size" -> b.ev \in {"sample", "error", "shutdown"} /\ b.n = a.n
      [] a.ev = "sample" -> b.ev \in {"total", "shutdown"} /\ b.n = a.n
      [] a.ev = "error" -> b.ev \in {"raw", "shutdown"} /\ b.n = a.n
      [] a.ev \in {"banner", "total", "raw", "idle"} ->
            \/ b.ev = "summary" /\ b.n = a.n + 1
            \/ b.ev = "idle" /\ b.n = a.n
            \/ b.ev = "shutdown" /\ b.n \in {a.n, a.n + 1}
      [] OTHER -> FALSE
C9_OutputCutOnlyByShutdown ==
    /\ \A i \in 1..(Len(log) - 1) : C9_Follows(log[i], log[i+1])
    /\ (pc = "except_kbd" /\ interrupts = 1) => intAt \in LoopPcs
C9_Witness ==
    /\ Len(log) >= 2
    /\ log[Len(log)].ev = "shutdown"
    /\ log[Len(log) - 1].ev = "summary"
    /\ intAt = "size"
    /\ message_count = 2

\* ---------------------------------------------------------------------
\* C10: the socket is open or closed and closed is final: after the close
\* nothing is received, counted or printed; the loop is left only by an
\* interrupt or an unhandled error, never after a timeout or a decode error.
C10_Inv ==
    /\ sock = "none" => pc \in {"create", "done"} /\ closes = 0
    /\ pc \in LoopPcs \cup {"except_kbd", "finally"} => sock = "open"
    /\ sock = "closed" => pc = "done" /\ closes = 1
C10_Step ==
    /\ sock = "closed" =>
          UNCHANGED <<sock, pc, message_count, log, received, timeouts>>
    /\ (pc \in LoopPcs /\ pc' \notin LoopPcs) =>
          \/ interrupts' = interrupts + 1
          \/ exc = "none" /\ exc' # "none"
    /\ (pc \in {"idle", "err", "raw"} /\ NoInterrupt) => pc' \in LoopPcs
    /\ (sock = "open" /\ sock' # "open") =>
          sock' = "closed" /\ (interrupts > 0 \/ exc # "none")
C10_ClosedIsTerminal == [](C10_Inv) /\ [][C10_Step]_vars
C10_Witness ==
    /\ sock = "closed"
    /\ message_count >= 1
    /\ Count("idle") >= 1
    /\ Count("error") >= 1
====
